---- MODULE Spec2Model ----
(***************************************************************************)
(* Model of the support-agent core: the session store, the orchestrator's  *)
(* process_message pipeline, the JSON workflow engine wired into it, the   *)
(* tools client and the policy override store.                             *)
(***************************************************************************)
EXTENDS Integers, Sequences, FiniteSets, TLC

\* ------------------------------------------------------------------ bounds
\* Days the clock may advance to (day 0 is a Wednesday).
MaxDay == 1
\* process_message calls that may be started.
MaxCalls == 2
\* Depth at which the interpreter's recursion limit ends _execute_decision.
MaxDepth == 5
\* EscalationAgent.escalate calls that may be made.
MaxEscalations == 1
\* evaluate calls that may be recorded.
MaxEvals == 2
\* entries of tool_history the action agent may write.
MaxHistory == 2
\* hop limit the specification asks of route_to_workflow
HopLimit == 3

\* ------------------------------------------------------------------ values
\* Python None
NONE == "none"
\* a day that is not set
NoDay == 0 - 1

ACTIVE == "active"
ESCALATED == "escalated"
RESOLVED == "resolved"
SessionStatus == {ACTIVE, ESCALATED, RESOLVED}

\* Intent enum members
Intent == {"WISMO", "WRONG_MISSING", "REFUND_STANDARD", "UNKNOWN"}

CUSTOMER == "customer"
AGENT == "agent"

DayNames == <<"Mon", "Tue", "Wed", "Thu", "Fri", "Sat", "Sun">>
\* datetime.weekday() of model day d, as its abbreviation; day 0 is a Wednesday
Weekday(d) == DayNames[((d + 2) % 7) + 1]

Threads == {1, 2}
OverrideIds == {"ov1", "ov2"}

\* Python truthiness of an optional string
Truthy(v) == v \notin {NONE, ""}

\* str(session.intent.value) / str(None)
IntentKey(intent) == IF intent = NONE THEN "None" ELSE intent

\* ------------------------------------------------------- workflow documents
EmptyCond == [kind |-> "empty"]
Leaf(f, op, v) == [kind |-> "leaf", field |-> f, operator |-> op, value |-> v]
AllOf(cs) == [kind |-> "all", conds |-> cs]
AnyOf(cs) == [kind |-> "any", conds |-> cs]

Lit(s) == [tok |-> "lit", v |-> s]
Var(k) == [tok |-> "var", v |-> k]
FromContext(f) == [src |-> "context", v |-> f]
Literal(s) == [src |-> "literal", v |-> s]

Rule(id, cond, action) ==
    [id |-> id, condition |-> cond, action |-> action, policy_applied |-> id,
     tool_plan |-> <<>>, response_template |-> <<>>, target_workflow |-> NONE,
     escalation_reason |-> NONE, priority |-> "medium"]

WismoRules ==
    << [Rule("promise_deadline_passed",
             Leaf("wismo_promise_deadline_passed", "equals", "true"), "escalate")
          EXCEPT !.escalation_reason = "Delivery promise deadline passed"],
       Rule("require_order_id", Leaf("order_id", "is_null", NONE), "ask_clarifying"),
       [Rule("fetch_order_status", Leaf("shipping_status", "is_null", NONE), "call_tool")
          EXCEPT !.tool_plan =
            << [tool_name |-> "shopify_get_order_details",
                params_source |-> [order_id |-> FromContext("order_id")]],
               [tool_name |-> "get_shipping_info",
                params_source |-> [order_id |-> Literal("{order_id}")]] >>],
       [Rule("delivered_refund", Leaf("shipping_status", "equals", "delivered"),
             "route_to_workflow")
          EXCEPT !.target_workflow = "REFUND_STANDARD"],
       [Rule("friday_promise",
             AllOf(<< Leaf("shipping_status", "contains", "transit"),
                    Leaf("contact_day", "in", {"Mon", "Tue", "Wed"}) >>), "respond")
          EXCEPT !.response_template =
            << Lit("Your order "), Var("order_id"), Lit(" should arrive by Friday") >>],
       [Rule("next_week_promise", EmptyCond, "respond")
          EXCEPT !.response_template =
            << Lit("Your order "), Var("order_id"), Lit(" should arrive early next week") >>] >>

RefundRules ==
    << [Rule("refund_shipping_delay",
             AnyOf(<< Leaf("shipping_status", "equals", "delivered"),
                    Leaf("shipping_status", "equals", "in_transit") >>),
             "route_to_workflow")
          EXCEPT !.target_workflow = "WISMO"],
       Rule("refund_need_order", Leaf("order_id", "is_null", NONE), "ask_clarifying"),
       Rule("refund_review", Leaf("item_name", "is_not_null", NONE), "escalate") >>

\* The loaded documents: workflow_name -> document.  WISMO and REFUND_STANDARD
\* route to each other for a delivered order; the other intents have no
\* document.
workflows ==
    [ WISMO |-> [workflow_name |-> "WISMO", required_fields |-> <<"order_id">>,
                 rules |-> WismoRules],
      REFUND_STANDARD |-> [workflow_name |-> "REFUND_STANDARD",
                           required_fields |-> <<"order_id", "tracking_number">>,
                           rules |-> RefundRules] ]

\* -------------------------------------------------------------- wismo helpers
\* a customer message's timestamp, or NoDay
RECURSIVE FirstCustomerDay(_)
FirstCustomerDay(msgs) ==
    IF msgs = <<>> THEN NoDay
    ELSE IF Head(msgs).role = CUSTOMER THEN Head(msgs).day
    ELSE FirstCustomerDay(Tail(msgs))

get_contact_day_now(session, now) ==
    IF Truthy(session.case_context.contact_day) THEN session.case_context.contact_day
    ELSE Weekday(now)

get_contact_day(session, now) ==
    IF Truthy(session.case_context.contact_day) THEN session.case_context.contact_day
    ELSE LET first == FirstCustomerDay(session.messages)
             contact_time == IF first # NoDay THEN first ELSE session.created_at
         IN  IF contact_time # NoDay THEN Weekday(contact_time) ELSE Weekday(now)

is_promise_deadline_passed(deadline_date, check_date) ==
    IF deadline_date = NoDay THEN FALSE ELSE check_date > deadline_date

\* ------------------------------------------------------------ workflow engine
BoolStr(b) == IF b THEN "true" ELSE "false"

ContextFields ==
    {"order_id", "tracking_number", "item_name", "shipping_status", "contact_day",
     "wismo_promise_deadline", "wismo_promise_deadline_passed", "customer_id"}

_build_context(session, now) ==
    LET cc == session.case_context
        contact_day == IF Truthy(cc.contact_day) THEN cc.contact_day
                       ELSE get_contact_day(session, now)
    IN  [order_id |-> cc.order_id,
         tracking_number |-> cc.tracking_number,
         item_name |-> cc.item_name,
         shipping_status |-> cc.shipping_status,
         contact_day |-> contact_day,
         wismo_promise_deadline |->
             IF cc.wismo_promise_deadline = NoDay THEN NONE
             ELSE ToString(cc.wismo_promise_deadline),
         wismo_promise_deadline_passed |->
             IF cc.wismo_promise_deadline # NoDay
             THEN BoolStr(is_promise_deadline_passed(cc.wismo_promise_deadline, now))
             ELSE "false",
         customer_id |-> session.customer_id]

\* context.get(field)
CtxGet(context, field) ==
    IF field \in DOMAIN context THEN context[field] ELSE NONE

\* `value in str(actual)` over the strings the documents use
Substrings(s) ==
    CASE s = "in_transit" -> {"in_transit", "in", "transit", ""}
      [] OTHER -> {s, ""}

RECURSIVE _evaluate_condition(_, _)
_evaluate_condition(condition, context) ==
    IF condition.kind = "empty" THEN TRUE
    ELSE IF condition.kind = "all"
    THEN \A i \in 1..Len(condition.conds) : _evaluate_condition(condition.conds[i], context)
    ELSE IF condition.kind = "any"
    THEN \E i \in 1..Len(condition.conds) : _evaluate_condition(condition.conds[i], context)
    ELSE LET field == condition.field
             operator == condition.operator
             value == condition.value
             actual == CtxGet(context, field)
         IN  IF ~Truthy(field) \/ ~Truthy(operator) THEN TRUE
             ELSE CASE operator = "is_null" -> actual \in {NONE, ""}
                    [] operator \in {"is_not_null", "not_null"} -> actual \notin {NONE, ""}
                    [] operator = "equals" -> actual = value
                    [] operator = "not_equals" -> actual # value
                    [] operator = "in" -> IF value # {} THEN actual \in value ELSE FALSE
                    [] operator = "not_in" -> IF value # {} THEN actual \notin value ELSE TRUE
                    [] operator = "contains" ->
                         IF Truthy(actual) THEN value \in Substrings(actual) ELSE FALSE
                    [] OTHER -> FALSE

\* The Python type of a leaf's value decides whether `in` and `contains`
\* can be computed at all: `actual in 5` and `5 in str(actual)` raise
\* TypeError, and so does `None in "ORD1"`; `actual in "ORD1"` with a string
\* is a substring test.  _evaluate_condition has no try/except, so what its
\* caller sees for a leaf is a match, a non-match or the TypeError.
ConditionOutcome(condition, value_type, context) ==
    LET leaf == condition.kind = "leaf"
        wellFormed == leaf /\ Truthy(condition.field) /\ Truthy(condition.operator)
        actual == CtxGet(context, condition.field)
        membership == wellFormed /\ condition.operator \in {"in", "not_in"}
                      /\ value_type \in {"int", "str"}
    IN  IF wellFormed /\ condition.operator = "contains" /\ Truthy(actual)
           /\ value_type # "str"
        THEN "TypeError"
        ELSE IF membership /\ value_type = "int" THEN "TypeError"
        ELSE IF membership /\ actual = NONE THEN "TypeError"
        ELSE IF membership
        THEN (IF (actual \in Substrings(condition.value))
                    = (condition.operator = "in")
              THEN "match" ELSE "non-match")
        ELSE IF _evaluate_condition(condition, context) THEN "match" ELSE "non-match"

\* a list that names every required field whatever the context holds
AllFields(fields, context) == fields

\* the workflow's required fields that are falsy in the context, in order
RECURSIVE MissingFields(_, _)
MissingFields(fields, context) ==
    IF fields = <<>> THEN <<>>
    ELSE (IF Truthy(CtxGet(context, Head(fields))) THEN <<>> ELSE <<Head(fields)>>)
         \o MissingFields(Tail(fields), context)

\* one tool plan entry with its params_source resolved against the context
ResolvePlanEntry(tp, context) ==
    [tool_name |-> tp.tool_name,
     params |-> [p \in DOMAIN tp.params_source |->
                   IF tp.params_source[p].src = "context"
                   THEN CtxGet(context, tp.params_source[p].v)
                   ELSE tp.params_source[p].v]]

\* template.replace("{key}", str(value)) for every context value that is set
Interpolate(template, context) ==
    [i \in 1..Len(template) |->
        IF template[i].tok = "var" /\ CtxGet(context, template[i].v) # NONE
        THEN Lit(CtxGet(context, template[i].v))
        ELSE template[i]]

\* The keys _build_decision never writes read as absent: decision.get gives
\* None for target_workflow and a falsy value for override_applied.
BaseDecision(workflow_id, rule_id, action, policy) ==
    [workflow_id |-> workflow_id, rule_id |-> rule_id, next_action |-> action,
     policy_applied |-> <<policy>>, required_fields_missing |-> <<>>,
     tool_plan |-> <<>>, response_template |-> <<>>, escalation_reason |-> NONE,
     escalation_priority |-> "medium", target_workflow |-> NONE,
     override_applied |-> FALSE]

_build_decision(workflow, rule, context) ==
    LET action == rule.action
        decision == [BaseDecision(workflow.workflow_name, rule.id, action,
                                  rule.policy_applied)
                       EXCEPT !.escalation_priority = rule.priority]
    IN  CASE action = "ask_clarifying" ->
               [decision EXCEPT !.required_fields_missing =
                                   MissingFields(workflow.required_fields, context)]
          [] action = "call_tool" ->
               [decision EXCEPT !.tool_plan =
                    [i \in 1..Len(rule.tool_plan) |->
                        ResolvePlanEntry(rule.tool_plan[i], context)]]
          [] action = "respond" ->
               [decision EXCEPT !.response_template =
                                   Interpolate(rule.response_template, context)]
          [] action = "escalate" ->
               [decision EXCEPT !.escalation_reason =
                    IF rule.escalation_reason = NONE THEN "Rule triggered escalation"
                    ELSE rule.escalation_reason,
                                !.response_template = rule.response_template]
          [] OTHER -> decision

\* index of the last rule whose condition holds, 0 when none does
RECURSIVE LastMatch(_, _, _)
LastMatch(rules, context, i) ==
    IF i > Len(rules) THEN 0
    ELSE IF LastMatch(rules, context, i + 1) # 0 THEN LastMatch(rules, context, i + 1)
    ELSE IF _evaluate_condition(rules[i].condition, context) THEN i
    ELSE 0

\* index of the first rule whose condition holds, the first rule when none does
RECURSIVE FirstMatchOrFirst(_, _, _)
FirstMatchOrFirst(rules, context, i) ==
    IF i > Len(rules) THEN 1
    ELSE IF _evaluate_condition(rules[i].condition, context) THEN i
    ELSE FirstMatchOrFirst(rules, context, i + 1)

\* index of the first rule whose condition holds, 0 when none does
RECURSIVE FirstMatch(_, _, _)
FirstMatch(rules, context, i) ==
    IF i > Len(rules) THEN 0
    ELSE IF _evaluate_condition(rules[i].condition, context) THEN i
    ELSE FirstMatch(rules, context, i + 1)

\* an evaluate that stores the contact day it computed in the session
SessionWithCachedDay(s, now) ==
    [s EXCEPT !.case_context.contact_day = get_contact_day(s, now)]

\* the session after evaluate has run on it: evaluate and _build_context read
\* the session through getattr and assign to their own dicts only
SessionAfterEvaluate(s, now) == s

evaluate(session, now) ==
    LET intent == IntentKey(session.intent)
    IN  IF intent \notin DOMAIN workflows
        THEN BaseDecision(intent, NONE, "respond", "default_response")
        ELSE LET workflow == workflows[intent]
                 context == _build_context(session, now)
                 m == FirstMatch(workflow.rules, context, 1)
             IN  IF m # 0 THEN _build_decision(workflow, workflow.rules[m], context)
                 ELSE BaseDecision(intent, NONE, "respond", "no_matching_rule")

\* ------------------------------------------------------------ tools client
\* Backend responses of one attempt: a successful response with its data, a
\* response with success false, or an exception of the transport.
OkTransit == [kind |-> "ok", status |-> "in_transit", tracking_number |-> "TRK1",
              carrier |-> "Yurtici Kargo"]
OkDelivered == [kind |-> "ok", status |-> "delivered", tracking_number |-> NONE,
                carrier |-> "Yurtici Kargo"]
Fail == [kind |-> "fail", status |-> NONE, tracking_number |-> NONE, carrier |-> NONE]
Exc == [kind |-> "exc", status |-> NONE, tracking_number |-> NONE, carrier |-> NONE]
BackendResponses == {OkTransit, OkDelivered, Fail, Exc}

\* max_retries of ToolsClient.execute
MaxRetries == 1

\* what the backend answers to each attempt of one execute call
BackendScripts == [1..(MaxRetries + 1) -> BackendResponses]

\* EscalationPayload: escalation_id is esc_ followed by the first hex_digits
\* digits of a fresh uuid's hex form, created_at the time of construction
EscalationPayload(customer_id, reason, conversation_summary, attempted_actions, priority) ==
    [escalation_id |-> [prefix |-> "esc_", hex_digits |-> 8],
     customer_id |-> customer_id, reason |-> reason,
     conversation_summary |-> conversation_summary,
     attempted_actions |-> attempted_actions, priority |-> priority,
     created_at |-> "utcnow"]

\* no payload: the data of an event that is not an escalation, a missing key
NoPayload == [escalation_id |-> NONE]

\* A trace event: data is the event's main datum, n its number (a confidence
\* in tenths, a retry count), success the outcome a tool_call event records,
\* payload the escalation payload an escalation event carries,
\* required_fields_missing the list a workflow_decision event carries.
TraceEvent(type, agent, data, n) ==
    [event_type |-> type, agent |-> agent, data |-> data, n |-> n, success |-> TRUE,
     payload |-> NoPayload, required_fields_missing |-> <<>>, workflow_id |-> NONE]

\* TraceLogger.log_workflow_decision
log_workflow_decision(decision) ==
    [TraceEvent("workflow_decision", "workflow", decision.next_action, 0)
        EXCEPT !.required_fields_missing = decision.required_fields_missing,
               !.workflow_id = decision.workflow_id]

\* TraceLogger.log_escalation(session_id, reason, payload)
log_escalation(reason, payload) ==
    [TraceEvent("escalation", "escalation", reason, 0) EXCEPT !.payload = payload]

ToolCallEvent(tool_name, success, retry_count) ==
    [TraceEvent("tool_call", "action", tool_name, retry_count) EXCEPT !.success = success]

ToolResult(success, data, should_escalate, events, backend_calls) ==
    [success |-> success, status |-> data.status,
     tracking_number |-> data.tracking_number, carrier |-> data.carrier,
     should_escalate |-> should_escalate, events |-> events,
     backend_calls |-> backend_calls]

\* a loop that gives up after its first attempt
ExecuteOnce(tool_name, script, retry_count, events) ==
    LET response == script[retry_count + 1]
    IN  IF response.kind = "ok"
        THEN ToolResult(TRUE, response, FALSE,
                 Append(events, ToolCallEvent(tool_name, TRUE, retry_count)),
                 retry_count + 1)
        ELSE ToolResult(FALSE, Fail, TRUE,
                 Append(events, ToolCallEvent(tool_name, FALSE, retry_count)),
                 retry_count + 1)

\* The retry loop of execute from attempt retry_count on; events are the
\* tool_call trace events logged so far.
RECURSIVE ExecuteLoop(_, _, _, _)
ExecuteLoop(tool_name, script, retry_count, events) ==
    IF retry_count > MaxRetries
    THEN ToolResult(FALSE, Fail, TRUE, events, retry_count)
    ELSE LET response == script[retry_count + 1]
         IN  IF response.kind = "exc"
             THEN ExecuteLoop(tool_name, script, retry_count + 1,
                      Append(events, ToolCallEvent(tool_name, FALSE, retry_count + 1)))
             ELSE IF response.kind = "ok"
             THEN ToolResult(TRUE, response, FALSE,
                      Append(events, ToolCallEvent(tool_name, TRUE, retry_count)),
                      retry_count + 1)
             ELSE ExecuteLoop(tool_name, script, retry_count + 1,
                      Append(events, ToolCallEvent(tool_name, FALSE, retry_count)))

\* execute without its validation step
execute_unvalidated(tool_name, valid, script) == ExecuteLoop(tool_name, script, 0, <<>>)

\* ToolsClient.execute: valid is the outcome of validate_params
execute(tool_name, valid, script) ==
    IF ~valid
    THEN ToolResult(FALSE, Fail, FALSE, <<ToolCallEvent(tool_name, FALSE, 0)>>, 0)
    ELSE ExecuteLoop(tool_name, script, 0, <<>>)

\* -------------------------------------------------------------- session store
NewSession(day) ==
    [status |-> ACTIVE, intent |-> NONE, confidence |-> 0, messages |-> <<>>,
     case_context |-> [order_id |-> NONE, tracking_number |-> NONE, item_name |-> NONE,
                       shipping_status |-> NONE, contact_day |-> NONE,
                       wismo_promise_deadline |-> NoDay],
     tool_history |-> <<>>, trace |-> <<>>, created_at |-> day,
     customer_id |-> "cust_1"]

Message(role, content, day) == [role |-> role, content |-> content, day |-> day]

\* a store that puts a new message in front of the others
PrependMessage(s, message) == [s EXCEPT !.messages = <<message>> \o @]

add_message(s, message) == [s EXCEPT !.messages = Append(@, message)]

add_trace_event(s, event) == [s EXCEPT !.trace = Append(@, event)]

set_status(s, status) == [s EXCEPT !.status = status]

\* number of events of one type in a trace
RECURSIVE CountEvents(_, _)
CountEvents(trace, type) ==
    IF trace = <<>> THEN 0
    ELSE (IF Head(trace).event_type = type THEN 1 ELSE 0) + CountEvents(Tail(trace), type)

\* ------------------------------------------------------------ policy overrides
\* PolicyOverride.__init__: created_at is a timestamp no code reads back
PolicyOverride(override_id, workflow, rule_id, override_action, active) ==
    [override_id |-> override_id, workflow |-> workflow, rule_id |-> rule_id,
     override_action |-> override_action, active |-> active,
     created_at |-> "utcnow"]

\* the None of get_override and get_by_id
NoOverride == PolicyOverride(NONE, NONE, NONE, NONE, FALSE)

to_dict(o) ==
    [override_id |-> o.override_id, workflow |-> o.workflow, rule_id |-> o.rule_id,
     override_action |-> o.override_action, active |-> o.active,
     created_at |-> o.created_at]

\* The store's dict is the sequence of its values in insertion order.
\* position of an id in the dict, 0 when absent
IndexOf(store, override_id) ==
    IF \E i \in 1..Len(store) : store[i].override_id = override_id
    THEN CHOOSE i \in 1..Len(store) : store[i].override_id = override_id
    ELSE 0

\* self.overrides[override_id] = override: a known key keeps its position
add_override(store, o) ==
    IF IndexOf(store, o.override_id) # 0
    THEN [store EXCEPT ![IndexOf(store, o.override_id)] = o]
    ELSE Append(store, o)

\* the first value of the dict that matches and is active
RECURSIVE get_override(_, _, _)
get_override(store, workflow, rule_id) ==
    IF store = <<>> THEN NoOverride
    ELSE IF Head(store).workflow = workflow /\ Head(store).rule_id = rule_id
            /\ Head(store).active
         THEN Head(store)
         ELSE get_override(Tail(store), workflow, rule_id)

\* a toggle that flips every override of the store
ToggleAll(store, override_id) ==
    IF IndexOf(store, override_id) # 0
    THEN [i \in 1..Len(store) |-> [store[i] EXCEPT !.active = ~@]]
    ELSE store

\* what toggle_override hands back: the new active flag of a known id,
\* ValueError for an unknown one
toggle_override_returns(store, override_id) ==
    IF IndexOf(store, override_id) # 0
    THEN [raised |-> NONE, value |-> ~store[IndexOf(store, override_id)].active]
    ELSE [raised |-> "ValueError", value |-> FALSE]

\* what remove_override hands back: whether the id was in the dict
remove_override_returns(store, override_id) == IndexOf(store, override_id) # 0

\* an unknown id raises ValueError and leaves the store as it is
toggle_override(store, override_id) ==
    IF IndexOf(store, override_id) # 0
    THEN [store EXCEPT ![IndexOf(store, override_id)].active = ~@]
    ELSE store

remove_override(store, override_id) ==
    LET k == IndexOf(store, override_id)
    IN  IF k # 0
        THEN [i \in 1..(Len(store) - 1) |-> IF i < k THEN store[i] ELSE store[i + 1]]
        ELSE store

clear_all(store) == <<>>

\* _persist: the file holds to_dict of every override, in the dict's order
Persisted(store) == [i \in 1..Len(store) |-> to_dict(store[i])]

\* A key that an entry of the file does not hold
Absent == "absent"

\* PolicyOverride(**override_data) returns: every required parameter of
\* __init__ is among the keys and no key is unknown to it; created_at, which
\* to_dict writes, is not a parameter of __init__
Constructs(override_data) ==
    /\ override_data.override_id # Absent
    /\ override_data.workflow # Absent
    /\ override_data.rule_id # Absent
    /\ override_data.override_action # Absent
    /\ override_data.created_at = Absent

\* _load_from_disk: one try around the whole loop, so the first entry whose
\* construction raises ends the load; the entries before it stay loaded
RECURSIVE _load_from_disk(_)
_load_from_disk(data) ==
    IF data = <<>> THEN <<>>
    ELSE IF Constructs(Head(data))
         THEN <<PolicyOverride(Head(data).override_id, Head(data).workflow,
                               Head(data).rule_id, Head(data).override_action,
                               Head(data).active)>>
              \o _load_from_disk(Tail(data))
         ELSE <<>>

VARIABLES
    session,        \* the stored session
    clock,          \* today, in days
    triage_agent,   \* whether wire_agents could construct the TriageAgent
    pc,             \* per caller: where its process_message call stands
    loc,            \* per caller: the locals of its call
    ret,            \* per caller: what its last call returned
    calls,          \* process_message calls started so far
    escalations,    \* EscalationAgent.escalate calls made so far
    atLock,         \* event counts when the session last became escalated
    overrides,      \* the policy override store's dict
    disk,           \* the persisted override file
    evs,            \* the evaluate calls made on the engine so far
    rd,             \* a get_override call in progress on the store
    tc,             \* a ToolsClient.execute call: its arguments, then its result
    fcall,          \* a call of another function: its arguments, then its result
    boot,           \* the override store: down, loaded, or mutated by a call
    session_ids,    \* the keys of the session store's dict
    focus,          \* the key of `session`, the session the last call looked up
    others          \* the store's other sessions, by key

vars == <<session, clock, triage_agent, pc, loc, ret, calls, escalations, atLock,
          overrides, disk, evs, rd, tc, fcall, boot, session_ids, focus, others>>

\* what the session pipeline leaves alone
adminVars == <<overrides, disk, evs, rd>>
\* what the engine and the override store leave alone
pipelineVars == <<triage_agent, pc, loc, ret, calls, escalations, atLock>>
\* what only the tools client call and the store's construction change
callVars == <<tc, fcall, boot, session_ids, focus, others>>

NoDecision == BaseDecision(NONE, NONE, NONE, NONE)
\* call is the number of the call the locals or the return value belong to
\* and failed the number of tool results without success of _handle_tool_call
\* (its all_success is failed = 0), should_escalate its flag of that name,
\* last_result the success flag and the data of the last tool result;
\* reply and escalation_payload are the keys of the response dict a handler
\* gives back to process_message
NoData == [success |-> FALSE, status |-> NONE, tracking_number |-> NONE,
           carrier |-> NONE]
NoLocals == [call |-> 0, session_id |-> NONE, decision |-> NoDecision, evals |-> 0,
             i |-> 0, reply |-> NONE, failed |-> 0, should_escalate |-> FALSE,
             escalation_payload |-> NoPayload, last_result |-> NoData]
\* the dict process_message returns (reply, status, intent, trace_event_count,
\* or error and status) with the number of the call, how it ended and whether
\* the guard answered
NoReturn == [call |-> 0, kind |-> NONE, reply |-> NONE, status |-> NONE, intent |-> NONE,
             trace_event_count |-> 0, locked |-> FALSE, error |-> NONE]

LockSnapshot(s) ==
    [tool_calls |-> CountEvents(s.trace, "tool_call"),
     triage_results |-> CountEvents(s.trace, "triage_result"),
     workflow_decisions |-> CountEvents(s.trace, "workflow_decision"),
     tool_history |-> Len(s.tool_history)]

\* the ghost atLock follows the session into the escalated status
TrackLock ==
    atLock' = IF session.status # ESCALATED /\ session'.status = ESCALATED
              THEN LockSnapshot(session')
              ELSE atLock

\* The request handlers are coroutines of one event loop and none of them
\* awaits: a handler starts only when no other handler is running.
EventLoopFreeAlways == TRUE
EventLoopFree ==
    /\ \A t \in Threads : pc[t] \in {"idle", "pending"}
    /\ rd.state # "iterating"

\* ---------------------------------------------------------------- orchestrator
\* the id of the session the store holds and an id it does not hold
SessionId == "s1"
UnknownSessionId == "invalid-id"

\* a lookup that finds a session under every id
GetFindsAny(session_id, ids) == TRUE

\* `session_store.get(session_id)` is not None
GetFinds(session_id, ids) == session_id \in ids

\* what the classifier may return
TriageResult(intent, confidence, order_id, item_name) ==
    [intent |-> intent, confidence |-> confidence,
     entities |-> [order_id |-> order_id, tracking_number |-> NONE,
                   item_name |-> item_name]]

TriageResults ==
    {TriageResult("WISMO", 9, "ORD1", NONE),
     TriageResult("WISMO", 3, NONE, NONE),
     TriageResult("REFUND_STANDARD", 9, "ORD1", "item1"),
     TriageResult("ORDER_MODIFICATION", 3, NONE, NONE),
     TriageResult("REFUND_STANDARD", 3, NONE, NONE),
     [TriageResult("REFUND_STANDARD", 3, NONE, NONE)
         EXCEPT !.entities.tracking_number = "TRK1"]}

\* how one execute call of the orchestrator may go: the outcome of the
\* parameter validation and the backend's answers
ToolRun(valid, first, second) == [valid |-> valid, script |-> <<first, second>>]

ToolRuns ==
    {ToolRun(FALSE, Fail, Fail),
     ToolRun(TRUE, OkTransit, OkTransit),
     ToolRun(TRUE, OkDelivered, OkDelivered),
     ToolRun(TRUE, Fail, OkTransit),
     ToolRun(TRUE, Exc, Fail)}

LOCK_REPLY == "Your request has been escalated ... shortly."
ESCALATION_REPLY == "Your request has been escalated ... within 24 hours."

\* the guard of process_message on the session's status
IsLockedNever(status) == FALSE
IsLocked(status) == status = ESCALATED

\* what process_message returns for a locked session
UnlockedReturn(s, call) ==
    [call |-> call, kind |-> "ok", reply |-> LOCK_REPLY, status |-> ESCALATED,
     intent |-> s.intent, trace_event_count |-> Len(s.trace), locked |-> FALSE,
     error |-> NONE]
LockedReturn(s, call) ==
    [call |-> call, kind |-> "locked", reply |-> LOCK_REPLY, status |-> ESCALATED,
     intent |-> s.intent, trace_event_count |-> 0, locked |-> TRUE, error |-> NONE]
\* {"error": "Session not found", "status": "error"}
NotFoundReturn(call) ==
    [NoReturn EXCEPT !.call = call, !.kind = "not_found", !.status = "error",
                     !.error = "Session not found"]

\* the status _handle_escalation and EscalationAgent.escalate write
LockStatusActive == ACTIVE
LockStatus == ESCALATED

\* SessionStore._sessions: `session` under its key and the other sessions
Sessions ==
    [id \in session_ids |-> IF id = focus THEN session ELSE others[id]]

\* a store that hands out the first session whatever the key
GetFirstSession(sessions, session_id) == sessions[SessionId]

\* the None that dict.get hands back for a key the dict does not hold
NoSession == [NewSession(NoDay) EXCEPT !.status = NONE]

\* self._sessions.get(session_id)
session_store_get(sessions, session_id) ==
    IF session_id \in DOMAIN sessions THEN sessions[session_id] ELSE NoSession

\* process_message up to its guards: the error for a session the store does
\* not hold, the canned reply of a locked session; from here on `session` is
\* the object that session_store.get(session_id) returned
Enter(t, session_id) ==
    /\ calls' = calls + 1
    /\ IF ~GetFinds(session_id, session_ids)
       THEN /\ ret' = [ret EXCEPT ![t] = NotFoundReturn(calls + 1)]
            /\ pc' = [pc EXCEPT ![t] = "idle"]
            /\ loc' = [loc EXCEPT ![t] = [NoLocals EXCEPT !.call = calls + 1,
                                                          !.session_id = session_id]]
            /\ UNCHANGED <<session, focus, others>>
       ELSE LET found == session_store_get(Sessions, session_id)
            IN  /\ session' = found
                /\ focus' = session_id
                /\ others' = [id \in session_ids \ {session_id} |-> Sessions[id]]
                /\ IF IsLocked(found.status)
                   THEN /\ ret' = [ret EXCEPT ![t] = LockedReturn(found, calls + 1)]
                        /\ pc' = [pc EXCEPT ![t] = "idle"]
                        /\ UNCHANGED loc
                   ELSE /\ pc' = [pc EXCEPT ![t] = "incoming"]
                        /\ loc' = [loc EXCEPT ![t] =
                                     [NoLocals EXCEPT !.call = calls + 1,
                                                      !.session_id = session_id]]
                        /\ UNCHANGED ret
    /\ UNCHANGED <<clock, triage_agent, escalations, atLock>>
    /\ UNCHANGED adminVars
    /\ UNCHANGED <<tc, fcall, boot, session_ids>>

\* a request arrives and its handler runs at once
process_message(t) ==
    /\ pc[t] = "idle"
    /\ calls < MaxCalls
    /\ EventLoopFree
    /\ \E session_id \in session_ids \cup {UnknownSessionId} : Enter(t, session_id)

\* requests waiting for the event loop
Pending == {t \in Threads : pc[t] = "pending"}

\* a request is issued, possibly while the handler of another one runs
Issue(t) ==
    /\ pc[t] = "idle"
    /\ calls + Cardinality(Pending) < MaxCalls
    /\ pc' = [pc EXCEPT ![t] = "pending"]
    /\ UNCHANGED <<session, clock, triage_agent, loc, ret, calls, escalations, atLock>>
    /\ UNCHANGED adminVars
    /\ UNCHANGED callVars

\* the event loop starts the handler of a waiting request
Dispatch(t) ==
    /\ pc[t] = "pending"
    /\ EventLoopFree
    /\ Enter(t, SessionId)

\* a session whose contact day always counts as not yet set
ContactDayNeverSet(s) == FALSE

\* the negation of `not session.case_context.contact_day`
ContactDayIsSet(s) == Truthy(s.case_context.contact_day)

\* the incoming message is stored and traced, contact_day is set once
LogIncoming(t) ==
    /\ pc[t] = "incoming"
    /\ LET s1 == add_message(session, Message(CUSTOMER, "msg", clock))
           s2 == add_trace_event(s1, TraceEvent("customer_message", NONE, "msg", 0))
       IN  session' = IF ~ContactDayIsSet(s2)
                      THEN [s2 EXCEPT !.case_context.contact_day = Weekday(clock)]
                      ELSE s2
    /\ pc' = [pc EXCEPT ![t] = "triage"]
    /\ UNCHANGED <<clock, triage_agent, loc, ret, calls, escalations>>
    /\ TrackLock
    /\ UNCHANGED adminVars
    /\ UNCHANGED callVars

\* Intent(result["intent"]) with its ValueError fallback
ToIntent(name) == IF name \in Intent THEN name ELSE "UNKNOWN"

\* an assignment that puts whatever arrived into the field
Overwrite(value, stored) == value

\* `if entities.get(f): case_context.f = entities[f]` and its like for tool
\* data: a value that is missing or empty leaves the stored one in place
KeepUnlessGiven(value, stored) == IF Truthy(value) THEN value ELSE stored

\* a triage that hands a low-confidence classification to a human
TriageEscalatesLow(s, result) ==
    LET logged == add_trace_event(s, TraceEvent("triage_result", "triage",
                                                result.intent, result.confidence))
    IN  IF result.confidence < 5 THEN set_status(logged, ESCALATED) ELSE logged

TriageUpdate(s, result) ==
    LET e == result.entities
        s1 == IF Truthy(result.intent)
              THEN [s EXCEPT !.intent = ToIntent(result.intent),
                             !.confidence = result.confidence]
              ELSE s
        cc == s1.case_context
        cc1 == [cc EXCEPT
                  !.order_id = KeepUnlessGiven(e.order_id, @),
                  !.tracking_number = KeepUnlessGiven(e.tracking_number, @),
                  !.item_name = KeepUnlessGiven(e.item_name, @)]
    IN  add_trace_event([s1 EXCEPT !.case_context = cc1],
                        TraceEvent("triage_result", "triage", result.intent,
                                   result.confidence))

_run_triage(t) ==
    /\ pc[t] = "triage"
    /\ IF ~triage_agent
       THEN session' = add_trace_event(session,
                           TraceEvent("triage_result", "triage", "UNKNOWN", 0))
       ELSE \E result \in TriageResults : session' = TriageUpdate(session, result)
    /\ pc' = [pc EXCEPT ![t] = "workflow"]
    /\ UNCHANGED <<clock, triage_agent, loc, ret, calls, escalations>>
    /\ TrackLock
    /\ UNCHANGED adminVars
    /\ UNCHANGED callVars

_run_workflow(t) ==
    /\ pc[t] = "workflow"
    /\ loc[t].evals < MaxDepth
    /\ LET decision == evaluate(session, clock)
       IN  /\ session' = add_trace_event(SessionAfterEvaluate(session, clock),
                                      log_workflow_decision(decision))
           /\ loc' = [loc EXCEPT ![t].decision = decision, ![t].evals = @ + 1]
    /\ pc' = [pc EXCEPT ![t] = "dispatch"]
    /\ UNCHANGED <<clock, triage_agent, ret, calls, escalations>>
    /\ TrackLock
    /\ UNCHANGED adminVars
    /\ UNCHANGED callVars

\* the interpreter ends the recursion of _execute_decision: the call raises
RecursionError(t) ==
    /\ pc[t] = "workflow"
    /\ loc[t].evals >= MaxDepth
    /\ pc' = [pc EXCEPT ![t] = "idle"]
    /\ ret' = [ret EXCEPT ![t] = [NoReturn EXCEPT !.call = loc[t].call,
                                                  !.kind = "RecursionError"]]
    /\ UNCHANGED <<session, clock, triage_agent, loc, calls, escalations, atLock>>
    /\ UNCHANGED adminVars
    /\ UNCHANGED callVars

_handle_respond(s, reply, day) ==
    add_trace_event(add_message(s, Message(AGENT, reply, day)),
                    TraceEvent("agent_response", "support", reply, 0))

\* a clarifying question that also hands the session to a human
AskAndLock(s, decision, day) ==
    set_status(add_trace_event(add_message(s, Message(AGENT, "Could you ...", day)),
                               TraceEvent("agent_response", "support", "Could you ...",
                                          0)),
               ESCALATED)

_handle_ask_clarifying(s, decision, day) ==
    LET reply == IF decision.required_fields_missing # <<>>
                 THEN "Could you please provide ..."
                 ELSE "Could you please provide more details?"
    IN  add_trace_event(add_message(s, Message(AGENT, reply, day)),
                        TraceEvent("agent_response", "support", reply, 0))

\* number of failed entries of tool_history
RECURSIVE FailedTools(_)
FailedTools(h) ==
    IF h = <<>> THEN 0
    ELSE (IF Head(h).success THEN 0 ELSE 1) + FailedTools(Tail(h))

_calculate_priority(s) == IF FailedTools(s.tool_history) >= 2 THEN "high" ELSE "medium"

\* the roles of the last five messages, which the summary quotes
_summarize_conversation(s) ==
    LET n == Len(s.messages)
    IN  [i \in 1..(IF n < 5 THEN n ELSE 5) |->
            s.messages[(IF n < 5 THEN 0 ELSE n - 5) + i].role]

\* the payload _handle_escalation constructs
HandleEscalationPayload(s, reason) ==
    EscalationPayload(s.customer_id, reason, _summarize_conversation(s),
                      [i \in 1..Len(s.tool_history) |-> s.tool_history[i].tool_name],
                      _calculate_priority(s))

_handle_escalation(s, reason, day) ==
    LET s1 == set_status(s, LockStatus)
        s2 == add_trace_event(s1, log_escalation(reason, HandleEscalationPayload(s, reason)))
        s3 == add_message(s2, Message(AGENT, ESCALATION_REPLY, day))
    IN  add_trace_event(s3, TraceEvent("agent_response", "escalation",
                                       ESCALATION_REPLY, 0))

\* the reply of the Support Agent
SUPPORT_REPLY == "support agent body"

_execute_decision(t) ==
    /\ pc[t] = "dispatch"
    /\ LET decision == loc[t].decision
           next_action == decision.next_action
       IN  CASE next_action = "ask_clarifying" ->
                  /\ session' = _handle_ask_clarifying(session, decision, clock)
                  /\ pc' = [pc EXCEPT ![t] = "return"]
                  /\ loc' = [loc EXCEPT ![t].reply = "clarifying"]
             [] next_action = "call_tool" ->
                  IF decision.tool_plan = <<>>
                  THEN /\ session' = _handle_respond(session, SUPPORT_REPLY, clock)
                       /\ pc' = [pc EXCEPT ![t] = "return"]
                       /\ loc' = [loc EXCEPT ![t].reply = SUPPORT_REPLY]
                  ELSE /\ pc' = [pc EXCEPT ![t] = "tool"]
                       /\ loc' = [loc EXCEPT ![t].i = 1]
                       /\ UNCHANGED session
             [] next_action = "escalate" ->
                  /\ session' = _handle_escalation(session, decision.escalation_reason,
                                                   clock)
                  /\ pc' = [pc EXCEPT ![t] = "return"]
                  /\ loc' = [loc EXCEPT
                               ![t].reply = ESCALATION_REPLY,
                               ![t].escalation_payload =
                                   HandleEscalationPayload(session,
                                                           decision.escalation_reason)]
             [] next_action = "route_to_workflow" ->
                  /\ session' = IF decision.target_workflow # NONE
                                THEN [session EXCEPT !.intent = decision.target_workflow]
                                ELSE session
                  /\ pc' = [pc EXCEPT ![t] = "workflow"]
                  /\ UNCHANGED loc
             [] OTHER ->
                  /\ session' = _handle_respond(session, SUPPORT_REPLY, clock)
                  /\ pc' = [pc EXCEPT ![t] = "return"]
                  /\ loc' = [loc EXCEPT ![t].reply = SUPPORT_REPLY]
    /\ UNCHANGED <<clock, triage_agent, ret, calls, escalations>>
    /\ TrackLock
    /\ UNCHANGED adminVars
    /\ UNCHANGED callVars

\* TOOL_FAILURE_THRESHOLD of the configuration
TOOL_FAILURE_THRESHOLD == 2

\* whether the loop of _handle_tool_call ends after a result
LoopNeverBreaks(result) == FALSE
LoopBreaks(result) == result.should_escalate

\* one iteration of the loop of _handle_tool_call over the plan, and what
\* follows the loop once it ends
\* where _handle_tool_call goes once its tools are done: it renders the reply
\* from the last result and returns, without re-running the workflow
AfterTools == "return"

_handle_tool_call(t) ==
    /\ pc[t] = "tool"
    /\ \E run \in ToolRuns :
         LET plan == loc[t].decision.tool_plan
             entry == plan[loc[t].i]
             result == execute(entry.tool_name, run.valid, run.script)
             logged == [session EXCEPT !.trace = @ \o result.events]
             cc == logged.case_context
             updated ==
                 IF result.success /\ ~result.should_escalate
                 THEN [logged EXCEPT !.case_context =
                        [cc EXCEPT
                           !.shipping_status = KeepUnlessGiven(result.status, @),
                           !.tracking_number =
                               KeepUnlessGiven(result.tracking_number, @)]]
                 ELSE logged
             failed == loc[t].failed + (IF result.success THEN 0 ELSE 1)
             should_escalate == loc[t].should_escalate \/ result.should_escalate
             noted == [loc EXCEPT ![t].failed = failed,
                                  ![t].should_escalate = should_escalate,
                                  ![t].last_result =
                                      [success |-> result.success,
                                       status |-> result.status,
                                       tracking_number |-> result.tracking_number,
                                       carrier |-> result.carrier]]
         IN  IF ~LoopBreaks(result) /\ loc[t].i < Len(plan)
             THEN /\ session' = updated
                  /\ pc' = pc
                  /\ loc' = [noted EXCEPT ![t].i = @ + 1]
             ELSE IF should_escalate
             THEN /\ session' = _handle_escalation(updated,
                                    "Tool execution failed after retry", clock)
                  /\ pc' = [pc EXCEPT ![t] = "return"]
                  /\ loc' = [noted EXCEPT
                               ![t].reply = ESCALATION_REPLY,
                               ![t].escalation_payload =
                                   HandleEscalationPayload(updated,
                                       "Tool execution failed after retry")]
             ELSE /\ session' = _handle_respond(updated, SUPPORT_REPLY, clock)
                  /\ pc' = [pc EXCEPT ![t] = AfterTools]
                  /\ loc' = [noted EXCEPT ![t].reply = SUPPORT_REPLY]
    /\ UNCHANGED <<clock, triage_agent, ret, calls, escalations>>
    /\ TrackLock
    /\ UNCHANGED adminVars
    /\ UNCHANGED callVars

\* the final state process_message returns
Return(t) ==
    /\ pc[t] = "return"
    /\ ret' = [ret EXCEPT ![t] =
                 [call |-> loc[t].call, kind |-> "ok", reply |-> loc[t].reply,
                  status |-> session.status,
                  intent |-> session.intent, trace_event_count |-> Len(session.trace),
                  locked |-> FALSE, error |-> NONE]]
    /\ pc' = [pc EXCEPT ![t] = "idle"]
    /\ UNCHANGED <<session, clock, triage_agent, loc, calls, escalations, atLock>>
    /\ UNCHANGED adminVars
    /\ UNCHANGED callVars

\* --------------------------------------------------------------- other callers
\* EscalationAgent.escalate: an explicit escalation request
\* msg.content.lower() over the texts customers send here
Lower(content) ==
    CASE content = "This is URGENT" -> "this is urgent"
      [] OTHER -> content

\* the high priority keywords that occur in a lowered text
high_priority_keywords == {"urgent", "acil", "hemen", "fraud"}
KeywordsIn(content) ==
    CASE content = "this is urgent" -> {"urgent"}
      [] OTHER -> {}

\* EscalationAgent._calculate_priority
EscalationAgent_calculate_priority(s) ==
    IF \E i \in 1..Len(s.messages) :
          /\ s.messages[i].role = CUSTOMER
          /\ KeywordsIn(Lower(s.messages[i].content)) \cap high_priority_keywords # {}
    THEN "high"
    ELSE IF FailedTools(s.tool_history) >= 2 THEN "high"
    ELSE "medium"

\* EscalationAgent._get_attempted_actions: one entry for each tool call, then
\* one for each workflow decision of the trace
_get_attempted_actions(s) ==
    [i \in 1..Len(s.tool_history) |-> s.tool_history[i].tool_name]
    \o [i \in 1..CountEvents(s.trace, "workflow_decision") |-> "Policy"]

\* the payload EscalationAgent.escalate constructs: a priority that is given
\* is taken as it is
EscalatePayload(s, reason, priority) ==
    EscalationPayload(s.customer_id, reason, _summarize_conversation(s),
                      _get_attempted_actions(s),
                      IF Truthy(priority) THEN priority
                      ELSE EscalationAgent_calculate_priority(s))

\* what EscalationAgent.escalate does to the session
EscalateSession(s, reason, priority) ==
    add_trace_event(set_status(s, LockStatus),
                    log_escalation(reason, EscalatePayload(s, reason, priority)))

escalate(reason, priority) ==
    /\ EventLoopFree
    /\ escalations < MaxEscalations
    /\ escalations' = escalations + 1
    /\ session' = EscalateSession(session, reason, priority)
    /\ UNCHANGED <<clock, triage_agent, pc, loc, ret, calls>>
    /\ TrackLock
    /\ UNCHANGED adminVars
    /\ UNCHANGED callVars

\* SessionStore.set_status called directly on the store, for an active session
StoreSetStatus(status) ==
    /\ EventLoopFree
    /\ session.status = ACTIVE
    /\ session' = set_status(session, status)
    /\ UNCHANGED <<clock, triage_agent, pc, loc, ret, calls, escalations>>
    /\ TrackLock
    /\ UNCHANGED adminVars
    /\ UNCHANGED callVars

\* ------------------------------------------------------- override store callers
\* what an administrator may ask for
AdminWorkflows == {"WISMO"}
AdminRules == {"require_order_id", "friday_promise"}
AdminActions == {"escalate"}

Persist == disk' = Persisted(overrides')

AddOverride(override_id, workflow, rule_id, override_action, active) ==
    /\ EventLoopFree
    /\ overrides' = add_override(overrides,
                        PolicyOverride(override_id, workflow, rule_id, override_action,
                                       active))
    /\ Persist
    /\ boot' = "mutated"
    /\ UNCHANGED <<session, clock, evs, rd, tc, fcall, session_ids, focus, others>>
    /\ UNCHANGED pipelineVars

ToggleOverride(override_id) ==
    /\ EventLoopFree
    /\ overrides' = toggle_override(overrides, override_id)
    /\ IF IndexOf(overrides, override_id) # 0
       THEN Persist /\ boot' = "mutated"
       ELSE UNCHANGED <<disk, boot>>
    /\ UNCHANGED <<session, clock, evs, rd, tc, fcall, session_ids, focus, others>>
    /\ UNCHANGED pipelineVars

\* the get_override call in progress iterates over the dict's entries: an
\* entry deleted behind its position leaves the position one entry ahead
RemoveOverride(override_id) ==
    /\ EventLoopFree
    /\ overrides' = remove_override(overrides, override_id)
    /\ IF IndexOf(overrides, override_id) # 0 THEN Persist ELSE UNCHANGED disk
    /\ rd' = IF rd.state = "iterating" /\ IndexOf(overrides, override_id) # 0
                /\ IndexOf(overrides, override_id) < rd.pos
             THEN [rd EXCEPT !.pos = @ - 1]
             ELSE rd
    /\ boot' = "mutated"
    /\ UNCHANGED <<session, clock, evs, tc, fcall, session_ids, focus, others>>
    /\ UNCHANGED pipelineVars

ClearAll ==
    /\ EventLoopFree
    /\ overrides # <<>>
    /\ overrides' = clear_all(overrides)
    /\ Persist
    /\ rd' = IF rd.state = "iterating" THEN [rd EXCEPT !.pos = 1] ELSE rd
    /\ boot' = "mutated"
    /\ UNCHANGED <<session, clock, evs, tc, fcall, session_ids, focus, others>>
    /\ UNCHANGED pipelineVars

NoRead == [state |-> "idle", workflow |-> NONE, rule_id |-> NONE, pos |-> 0,
           used |-> 0, left |-> 0, store0 |-> <<>>, result |-> NoOverride]

\* get_override starts: iter(self.overrides.values()) notes the dict's size
GetOverrideStart(workflow, rule_id) ==
    /\ rd.state # "iterating"
    /\ EventLoopFree
    /\ rd' = [state |-> "iterating", workflow |-> workflow, rule_id |-> rule_id,
              pos |-> 1, used |-> Len(overrides), left |-> Len(overrides),
              store0 |-> overrides, result |-> NoOverride]
    /\ UNCHANGED <<session, clock, overrides, disk, evs>>
    /\ UNCHANGED pipelineVars
    /\ UNCHANGED callVars

\* one turn of the loop of get_override: the iterator raises RuntimeError
\* when the dict's size is not the one it noted, or when it finds an entry
\* after it has yielded as many as the dict had
GetOverrideStep ==
    /\ rd.state = "iterating"
    /\ rd' = IF Len(overrides) # rd.used
             THEN [rd EXCEPT !.state = "RuntimeError"]
             ELSE IF rd.pos > Len(overrides)
             THEN [rd EXCEPT !.state = "done", !.result = NoOverride]
             ELSE IF rd.left = 0
             THEN [rd EXCEPT !.state = "RuntimeError"]
             ELSE IF /\ overrides[rd.pos].workflow = rd.workflow
                     /\ overrides[rd.pos].rule_id = rd.rule_id
                     /\ overrides[rd.pos].active
             THEN [rd EXCEPT !.state = "done", !.result = overrides[rd.pos]]
             ELSE [rd EXCEPT !.pos = @ + 1, !.left = @ - 1]
    /\ UNCHANGED <<session, clock, overrides, disk, evs>>
    /\ UNCHANGED pipelineVars
    /\ UNCHANGED callVars

\* ---------------------------------------------------------------- engine caller
\* WorkflowEngine.evaluate is called on the session; the call is recorded with
\* the day it was made on and the override store it ran against
EvaluateCall ==
    /\ EventLoopFree
    /\ Len(evs) < MaxEvals
    /\ evs' = Append(evs, [now |-> clock, decision |-> evaluate(session, clock),
                           overrides |-> overrides])
    /\ session' = SessionAfterEvaluate(session, clock)
    /\ UNCHANGED <<clock, overrides, disk, rd>>
    /\ UNCHANGED pipelineVars
    /\ UNCHANGED callVars

\* ------------------------------------------------------------ specifications
InitPipeline ==
    /\ triage_agent \in BOOLEAN
    /\ pc = [t \in Threads |-> "idle"]
    /\ loc = [t \in Threads |-> NoLocals]
    /\ ret = [t \in Threads |-> NoReturn]
    /\ calls = 0
    /\ escalations = 0

\* no execute call under observation, the store constructed without a file
NoResult == ToolResult(FALSE, Fail, FALSE, <<>>, 0)
NoToolCall == [state |-> "idle", tool_name |-> NONE, valid |-> TRUE,
               script |-> [k \in 1..(MaxRetries + 1) |-> Fail], result |-> NoResult]
NoCall == [state |-> "idle"]
InitCall ==
    /\ tc = NoToolCall
    /\ fcall = NoCall
    /\ boot = "loaded"
    /\ session_ids = {SessionId}
    /\ focus = SessionId
    /\ others = <<>>

InitAdmin ==
    /\ overrides = <<>>
    /\ disk = <<>>
    /\ evs = <<>>
    /\ rd = NoRead
    /\ InitCall

Init ==
    /\ session = NewSession(0)
    /\ clock = 0
    /\ atLock = LockSnapshot(NewSession(0))
    /\ InitPipeline
    /\ InitAdmin

\* a day passes between two requests
Tick ==
    /\ EventLoopFree
    /\ clock < MaxDay
    /\ clock' = clock + 1
    /\ UNCHANGED <<session, triage_agent, pc, loc, ret, calls, escalations, atLock>>
    /\ UNCHANGED adminVars
    /\ UNCHANGED callVars

Step(t) ==
    \/ LogIncoming(t)
    \/ _run_triage(t)
    \/ _run_workflow(t)
    \/ RecursionError(t)
    \/ _execute_decision(t)
    \/ _handle_tool_call(t)
    \/ Return(t)

\* the session pipeline, one request after the other
Next ==
    \/ Tick
    \/ process_message(1)
    \/ \E t \in Threads : Step(t)
    \/ escalate("Customer requested a human", NONE)
    \/ \E status \in {ESCALATED, RESOLVED} : StoreSetStatus(status)

Spec == Init /\ [][Next]_vars

\* two requests for the session that may be issued at the same time
NextConc ==
    \/ \E t \in Threads : Issue(t)
    \/ \E t \in Threads : Dispatch(t)
    \/ \E t \in Threads : Step(t)

SpecConc == Init /\ [][NextConc]_vars

\* two sessions in the store and calls for either of them, in any order
OtherSessionId == "s2"
InitSessions ==
    /\ session = NewSession(0)
    /\ clock = 0
    /\ atLock = LockSnapshot(NewSession(0))
    /\ InitPipeline
    /\ overrides = <<>>
    /\ disk = <<>>
    /\ evs = <<>>
    /\ rd = NoRead
    /\ tc = NoToolCall
    /\ fcall = NoCall
    /\ boot = "loaded"
    /\ session_ids = {SessionId, OtherSessionId}
    /\ focus = SessionId
    /\ others = [id \in {OtherSessionId} |-> NewSession(0)]

NextSessions ==
    \/ Tick
    \/ process_message(1)
    \/ \E t \in Threads : Step(t)

SpecSessions == InitSessions /\ [][NextSessions]_vars

\* a record of session.tool_history
ToolCallRecord(tool_name, success) == [tool_name |-> tool_name, success |-> success]

\* The loop of ActionAgent.execute over the tool plan from entry i on: each
\* result is appended to the session's tool_history, and a result that asks
\* for escalation ends the loop.
RECURSIVE ActionAgentLoop(_, _, _, _)
ActionAgentLoop(tool_history, tool_plan, scripts, i) ==
    IF i > Len(tool_plan) THEN tool_history
    ELSE LET result == execute(tool_plan[i].tool_name, TRUE, scripts[i])
             appended == Append(tool_history,
                                ToolCallRecord(tool_plan[i].tool_name, result.success))
         IN  IF result.should_escalate THEN appended
             ELSE ActionAgentLoop(appended, tool_plan, scripts, i + 1)

\* what the backend does during one ActionAgent.execute: it answers every
\* attempt of a tool, or fails every attempt of it
ActionAgentScripts ==
    {[a \in 1..(MaxRetries + 1) |-> response] : response \in {OkTransit, Fail}}

\* ActionAgent.execute on the session for a call_tool Decision with a plan
ActionAgentExecute ==
    /\ EventLoopFree
    /\ \E m \in 1..Len(WismoRules), scripts \in [1..2 -> ActionAgentScripts] :
          LET tool_plan == WismoRules[m].tool_plan
          IN  /\ WismoRules[m].action = "call_tool"
              /\ tool_plan # <<>>
              /\ Len(session.tool_history) + Len(tool_plan) <= MaxHistory
              /\ session' = [session EXCEPT !.tool_history =
                                 ActionAgentLoop(@, tool_plan, scripts, 1)]
    /\ UNCHANGED <<clock, triage_agent, pc, loc, ret, calls, escalations, atLock>>
    /\ UNCHANGED adminVars
    /\ UNCHANGED callVars

\* every operation that writes a session's lists: the pipeline, the store's
\* own operations, the escalation agent and the action agent
NextLists ==
    \/ process_message(1)
    \/ \E t \in Threads : Step(t)
    \/ escalate("Customer requested a human", NONE)
    \/ \E status \in {ESCALATED, RESOLVED} : StoreSetStatus(status)
    \/ ActionAgentExecute

SpecLists == Init /\ [][NextLists]_vars

\* ToolsClient.execute applied to a tool, to parameters that pass validation or
\* do not, and to a backend that answers each attempt as the script says
ToolNames == {"shopify_get_order_details", "get_shipping_info"}
ToolCalls ==
    {[state |-> "called", tool_name |-> tool_name, valid |-> valid, script |-> script,
      result |-> NoResult] :
        tool_name \in ToolNames, valid \in BOOLEAN, script \in BackendScripts}

ExecuteCall ==
    /\ tc.state = "called"
    /\ tc' = [tc EXCEPT !.state = "done",
                        !.result = execute(tc.tool_name, tc.valid, tc.script)]
    /\ UNCHANGED <<session, clock, overrides, disk, evs, rd, fcall, boot>>
    /\ UNCHANGED <<session_ids, focus, others>>
    /\ UNCHANGED pipelineVars

InitTools ==
    /\ session = NewSession(0)
    /\ clock = 0
    /\ atLock = LockSnapshot(NewSession(0))
    /\ InitPipeline
    /\ overrides = <<>>
    /\ disk = <<>>
    /\ evs = <<>>
    /\ rd = NoRead
    /\ boot = "loaded"
    /\ session_ids = {SessionId}
    /\ focus = SessionId
    /\ others = <<>>
    /\ fcall = NoCall
    /\ tc \in ToolCalls

NextTools == ExecuteCall

SpecTools == InitTools /\ [][NextTools]_vars

\* The entries a file may hold under an id when the process starts: what
\* _persist wrote in an earlier run, the same entry written by hand without
\* created_at, and an entry that lost its workflow key.
FileEntries(override_id) ==
    {to_dict(PolicyOverride(override_id, "WISMO", "require_order_id", "escalate", TRUE)),
     [to_dict(PolicyOverride(override_id, "WISMO", "require_order_id", "escalate", TRUE))
          EXCEPT !.created_at = Absent],
     [to_dict(PolicyOverride(override_id, "WISMO", "require_order_id", "escalate", TRUE))
          EXCEPT !.workflow = Absent]}

\* the files: no entry, one entry, or one entry for each of two ids
BootFiles ==
    {<<>>}
    \cup {<<e>> : e \in UNION {FileEntries(override_id) : override_id \in OverrideIds}}
    \cup {<<e1, e2>> : e1 \in FileEntries("ov1"), e2 \in FileEntries("ov2")}
    \cup {<<e2, e1>> : e1 \in FileEntries("ov1"), e2 \in FileEntries("ov2")}

\* PolicyOverrideStore(persist_path): the store of get_policy_store is built
Construct ==
    /\ boot = "down"
    /\ overrides' = _load_from_disk(disk)
    /\ boot' = "loaded"
    /\ UNCHANGED <<session, clock, disk, evs, rd, tc, fcall, session_ids, focus, others>>
    /\ UNCHANGED pipelineVars

InitBoot ==
    /\ session = NewSession(0)
    /\ clock = 0
    /\ atLock = LockSnapshot(NewSession(0))
    /\ InitPipeline
    /\ overrides = <<>>
    /\ disk \in BootFiles
    /\ evs = <<>>
    /\ rd = NoRead
    /\ tc = NoToolCall
    /\ fcall = NoCall
    /\ boot = "down"
    /\ session_ids = {SessionId}
    /\ focus = SessionId
    /\ others = <<>>

\* a process that starts on the file of an earlier run and serves the
\* administrator's calls
NextBoot ==
    \/ Construct
    \/ \E override_id \in OverrideIds, active \in BOOLEAN :
          boot # "down"
          /\ AddOverride(override_id, "WISMO", "require_order_id", "escalate", active)
    \/ \E override_id \in OverrideIds : boot # "down" /\ ToggleOverride(override_id)
    \/ \E override_id \in OverrideIds : boot # "down" /\ RemoveOverride(override_id)
    \/ boot # "down" /\ ClearAll

SpecBoot == InitBoot /\ [][NextBoot]_vars

\* the sessions that get escalated: with and without an urgent customer text,
\* with no, one and two failed tool calls
EscalationSessions ==
    {[NewSession(0) EXCEPT !.messages = messages, !.tool_history = tool_history] :
        messages \in {<<>>, <<Message(CUSTOMER, "msg", 0)>>,
                      <<Message(CUSTOMER, "This is URGENT", 0)>>,
                      <<Message(CUSTOMER, "msg", 0), Message(AGENT, "This is URGENT", 0)>>},
        tool_history \in {<<>>, <<ToolCallRecord("get_shipping_info", FALSE)>>,
                          <<ToolCallRecord("get_shipping_info", TRUE),
                            ToolCallRecord("get_shipping_info", FALSE)>>,
                          <<ToolCallRecord("shopify_get_order_details", FALSE),
                            ToolCallRecord("get_shipping_info", FALSE)>>}}

\* the priorities a caller of escalate passes, and those a rule states
CallerPriorities == {NONE, "", "low", "medium", "high", "critical"}
RulePriorities == {"low", "medium", "high"}

\* the escalations asked for: by a caller of EscalationAgent.escalate, and by
\* the orchestrator for an escalate decision of the engine
EscalationCalls ==
    {[state |-> "called", kind |-> "agent", reason |-> "Customer requested a human",
      priority |-> priority, payload |-> NoPayload] : priority \in CallerPriorities}
    \cup
    {[state |-> "called", kind |-> "orchestrator", reason |-> "Rule triggered escalation",
      priority |-> priority, payload |-> NoPayload] : priority \in RulePriorities}

\* EscalationAgent.escalate(session_id, reason, priority) and what it returns
EscalateCall ==
    /\ fcall.state = "called"
    /\ fcall.kind = "agent"
    /\ session' = EscalateSession(session, fcall.reason, fcall.priority)
    /\ fcall' = [fcall EXCEPT !.state = "done",
                              !.payload = EscalatePayload(session, fcall.reason,
                                                          fcall.priority)]
    /\ TrackLock
    /\ UNCHANGED <<clock, overrides, disk, evs, rd, tc, boot, session_ids, focus, others>>
    /\ UNCHANGED <<triage_agent, pc, loc, ret, calls, escalations>>

\* Orchestrator._handle_escalation(session_id, decision) for a decision with
\* escalation_reason and escalation_priority, and what it returns
HandleEscalationCall ==
    /\ fcall.state = "called"
    /\ fcall.kind = "orchestrator"
    /\ session' = _handle_escalation(session, fcall.reason, clock)
    /\ fcall' = [fcall EXCEPT !.state = "done",
                              !.payload = HandleEscalationPayload(session, fcall.reason)]
    /\ TrackLock
    /\ UNCHANGED <<clock, overrides, disk, evs, rd, tc, boot, session_ids, focus, others>>
    /\ UNCHANGED <<triage_agent, pc, loc, ret, calls, escalations>>

InitEscalation ==
    /\ session \in EscalationSessions
    /\ clock = 0
    /\ atLock = LockSnapshot(session)
    /\ InitPipeline
    /\ overrides = <<>>
    /\ disk = <<>>
    /\ evs = <<>>
    /\ rd = NoRead
    /\ tc = NoToolCall
    /\ boot = "loaded"
    /\ session_ids = {SessionId}
    /\ focus = SessionId
    /\ others = <<>>
    /\ fcall \in EscalationCalls

NextEscalation ==
    \/ EscalateCall
    \/ HandleEscalationCall

SpecEscalation == InitEscalation /\ [][NextEscalation]_vars

\* the conditions _evaluate_condition is called on, each with the Python type
\* of its value: well-formed leaves, a leaf with an operator the engine does
\* not know, leaves without a field or an operator, leaves whose value has
\* the wrong type for the operator, and compounds of them
ConditionInputs ==
    << [condition |-> EmptyCond, value_type |-> "none"],
       [condition |-> Leaf("order_id", "is_null", NONE), value_type |-> "none"],
       [condition |-> Leaf("order_id", "equals", "ORD1"), value_type |-> "str"],
       [condition |-> Leaf("shipping_status", "in", {"in_transit", "delivered"}),
        value_type |-> "list"],
       [condition |-> Leaf("shipping_status", "contains", "transit"),
        value_type |-> "str"],
       [condition |-> Leaf("order_id", "matches", "ORD1"), value_type |-> "str"],
       [condition |-> Leaf(NONE, "is_null", NONE), value_type |-> "none"],
       [condition |-> Leaf("order_id", NONE, "ORD1"), value_type |-> "str"],
       [condition |-> Leaf("shipping_status", "in", "5"), value_type |-> "int"],
       [condition |-> Leaf("shipping_status", "contains", "5"), value_type |-> "int"],
       [condition |-> Leaf("order_id", "in", "ORD1"), value_type |-> "str"],
       [condition |-> AllOf(<< Leaf("order_id", "", "ORD1") >>), value_type |-> "str"],
       [condition |-> AnyOf(<< Leaf("order_id", "matches", "ORD1"),
                               Leaf("order_id", "is_not_null", NONE) >>),
        value_type |-> "none"] >>

\* the sessions whose context the conditions are evaluated against
ConditionSessions ==
    {[NewSession(0) EXCEPT !.intent = "WISMO",
                           !.case_context = [@ EXCEPT
                               !.order_id = order_id,
                               !.shipping_status = shipping_status]] :
        order_id \in {NONE, "", "ORD1"},
        shipping_status \in {NONE, "in_transit", "delivered"}}

\* WorkflowEngine._evaluate_condition(condition, context) and what its caller
\* sees
EvaluateConditionCall ==
    /\ fcall.state = "called"
    /\ fcall.kind = "condition"
    /\ fcall' = [fcall EXCEPT
                   !.state = "done",
                   !.outcome = ConditionOutcome(fcall.condition, fcall.value_type,
                                                _build_context(session, clock))]
    /\ UNCHANGED <<session, clock, overrides, disk, evs, rd, tc, boot>>
    /\ UNCHANGED <<session_ids, focus, others>>
    /\ UNCHANGED pipelineVars

InitConditions ==
    /\ session \in ConditionSessions
    /\ clock = 0
    /\ atLock = LockSnapshot(session)
    /\ InitPipeline
    /\ overrides = <<>>
    /\ disk = <<>>
    /\ evs = <<>>
    /\ rd = NoRead
    /\ tc = NoToolCall
    /\ boot = "loaded"
    /\ session_ids = {SessionId}
    /\ focus = SessionId
    /\ others = <<>>
    /\ \E i \in 1..Len(ConditionInputs) :
          fcall = [state |-> "called", kind |-> "condition",
                   condition |-> ConditionInputs[i].condition,
                   value_type |-> ConditionInputs[i].value_type,
                   outcome |-> NONE]

NextConditions == EvaluateConditionCall

SpecConditions == InitConditions /\ [][NextConditions]_vars

\* the sessions evaluate is called on
EngineSessions ==
    {[NewSession(0) EXCEPT !.intent = intent, !.messages = messages,
                           !.case_context = [@ EXCEPT
                               !.order_id = order_id,
                               !.item_name = item_name,
                               !.shipping_status = shipping_status,
                               !.contact_day = contact_day,
                               !.wismo_promise_deadline = deadline]] :
        intent \in {NONE, "WISMO", "REFUND_STANDARD", "UNKNOWN"},
        messages \in {<<>>, <<Message(CUSTOMER, "msg", 1)>>},
        order_id \in {NONE, "ORD1"},
        item_name \in {NONE, "item1"},
        shipping_status \in {NONE, "in_transit", "delivered"},
        contact_day \in {NONE, "Mon"},
        deadline \in {NoDay, 0}}

InitEngine ==
    /\ session \in EngineSessions
    /\ clock = 0
    /\ atLock = LockSnapshot(session)
    /\ InitPipeline
    /\ InitAdmin

\* the engine under evaluate calls, passing days and an administrator
NextEngine ==
    \/ Tick
    \/ EvaluateCall
    \/ AddOverride("ov1", "WISMO", "require_order_id", "escalate", TRUE)
    \/ ToggleOverride("ov1")

SpecEngine == InitEngine /\ [][NextEngine]_vars

\* the override store under its administrators and a reader
NextOverrides ==
    \/ \E override_id \in OverrideIds, workflow \in AdminWorkflows,
          rule_id \in AdminRules, override_action \in AdminActions,
          active \in BOOLEAN :
          AddOverride(override_id, workflow, rule_id, override_action, active)
    \/ \E override_id \in OverrideIds : ToggleOverride(override_id)
    \/ \E override_id \in OverrideIds : RemoveOverride(override_id)
    \/ ClearAll
    \/ \E workflow \in AdminWorkflows, rule_id \in AdminRules :
          GetOverrideStart(workflow, rule_id)
    \/ GetOverrideStep

SpecOverrides == Init /\ [][NextOverrides]_vars

\* ------------------------------------------------------------------ properties
\* a step of a process_message call, and a step of either escalation path
MessageStep == calls' # calls \/ pc' # pc \/ loc' # loc
PipelineStep == MessageStep \/ escalations' # escalations

\* C1: while the session is escalated, the numbers of tool_call, triage_result
\* and workflow_decision trace events and the length of tool_history are what
\* they were when the session became escalated, however many process_message
\* calls followed.
C1_EscalationLock ==
    session.status = ESCALATED => LockSnapshot(session) = atLock

\* a second call found the session escalated by the tool failures of the first
C1_Witness ==
    /\ session.status = ESCALATED
    /\ atLock.tool_calls > 0
    /\ ret[1].locked
    /\ ret[1].call = 2

\* the step starts a call for a session id the store does not hold
ForUnknownId(t) ==
    /\ calls' = calls + 1
    /\ loc'[t].call = calls'
    /\ loc'[t].session_id \notin session_ids

\* C2: a process_message call that finds the session escalated leaves the
\* whole session as it is (messages, tool_history, case_context, intent,
\* confidence, trace and status) and returns the canned lock reply with
\* status escalated and the locked flag.
C2_LockedCallIsNoOp ==
    [][\A t \in Threads :
          (pc[t] \in {"idle", "pending"} /\ calls' = calls + 1
              /\ session.status = ESCALATED
              /\ ~ForUnknownId(t)
              /\ (pc'[t] # pc[t] \/ ret'[t] # ret[t]))
          => /\ session' = session
             /\ pc'[t] = "idle"
             /\ ret'[t].reply = LOCK_REPLY
             /\ ret'[t].status = ESCALATED
             /\ ret'[t].locked
             /\ ret'[t].call = calls + 1]_vars

\* after a first call that left messages and stopped short of escalating, an
\* explicit escalation, and a second call that got the lock reply
C2_Witness ==
    /\ ret[1].locked
    /\ ret[1].call = 2
    /\ ret[1].intent = "WISMO"
    /\ Len(session.messages) = 2
    /\ escalations = 1

\* C3: no step of a process_message call and no EscalationAgent.escalate
\* call moves an escalated session to another status.
C3_EscalatedIsTerminal ==
    [][(session.status = ESCALATED /\ PipelineStep)
          => session'.status = ESCALATED]_vars

\* escalated by the pipeline, escalated again on request, then called again
C3_Witness ==
    /\ session.status = ESCALATED
    /\ CountEvents(session.trace, "escalation") = 2
    /\ CountEvents(session.trace, "agent_response") = 1
    /\ ret[1].locked

\* C4: no step of a process_message call moves a resolved session to another
\* status.
C4_ResolvedIsTerminal ==
    [][(session.status = RESOLVED /\ MessageStep)
          => session'.status = RESOLVED]_vars

\* a request whose handler is running
Running(t) == pc[t] \notin {"idle", "pending"}

Evals == 1..Len(evs)

\* C7: every evaluate call on a session whose intent has no loaded workflow
\* returns next_action "escalate" with policy no_matching_workflow.
C7_FallbackEscalates ==
    \A i \in Evals :
        IntentKey(session.intent) \notin DOMAIN workflows
        => /\ evs[i].decision.next_action = "escalate"
           /\ evs[i].decision.policy_applied = <<"no_matching_workflow">>

\* the active override of the store a call ran against, for the rule it matched
OverrideFor(ev) == get_override(ev.overrides, ev.decision.workflow_id, ev.decision.rule_id)

\* C8: every evaluate call that matched a rule for which the store held an
\* active override returns the override's action with override_applied set.
C8_OverridePrecedence ==
    \A i \in Evals :
        (evs[i].decision.rule_id # NONE /\ OverrideFor(evs[i]).override_id # NONE)
        => /\ evs[i].decision.next_action = OverrideFor(evs[i]).override_action
           /\ evs[i].decision.override_applied

\* whether the day of a call lies after the session's promise deadline
PastDeadline(now) ==
    /\ session.case_context.wismo_promise_deadline # NoDay
    /\ now > session.case_context.wismo_promise_deadline

SessionRules == workflows[IntentKey(session.intent)].rules
Satisfied(k, ev) ==
    _evaluate_condition(SessionRules[k].condition, _build_context(session, ev.now))

Appended == SubSeq(session'.trace, Len(session.trace) + 1, Len(session'.trace))
AppendedToolCalls == {k \in 1..Len(Appended) : Appended[k].event_type = "tool_call"}

\* C13: every step of the tool loop executes the plan entry at the loop's
\* position and no other (its tool_call events name that entry's tool), a
\* step that goes on moves to the next entry of the plan, and a step whose
\* execution failed on every attempt, the result flagged should_escalate,
\* executes no later entry: the call escalates and goes on to return.
C13_PlanOrderAndStop ==
    [][\A t \in Threads :
          (pc[t] = "tool" /\ (pc'[t] # pc[t] \/ loc'[t] # loc[t]))
          => /\ AppendedToolCalls # {}
             /\ \A k \in AppendedToolCalls :
                   Appended[k].data = loc[t].decision.tool_plan[loc[t].i].tool_name
             /\ pc'[t] = "tool"
                   => /\ loc'[t].i = loc[t].i + 1
                      /\ loc'[t].i <= Len(loc[t].decision.tool_plan)
             /\ Cardinality({k \in AppendedToolCalls : ~Appended[k].success})
                   = MaxRetries + 1
                   => /\ pc'[t] = "return"
                      /\ session'.status = ESCALATED]_vars

\* the first entry of a plan of two failed on every attempt: the call has
\* escalated and the trace holds no tool call of the second entry
C13_Witness ==
    /\ pc[1] = "return"
    /\ Len(loc[1].decision.tool_plan) = 2
    /\ loc[1].i = 1
    /\ loc[1].should_escalate
    /\ session.status = ESCALATED
    /\ CountEvents(session.trace, "tool_call") = MaxRetries + 1

\* C14: a process_message call in which TOOL_FAILURE_THRESHOLD tool
\* executions failed ends with the session escalated.
C14_FailureThreshold ==
    \A t \in Threads :
        (pc[t] = "return" /\ loc[t].failed >= TOOL_FAILURE_THRESHOLD)
        => session.status = ESCALATED

\* the attempts the finished execute call made on the backend
Attempts == 1..tc.result.backend_calls
Failed(k) == tc.script[k].kind # "ok"

\* C15: for parameters that pass validation, execute calls the backend at most
\* max_retries + 1 times, returns the first successful response without a
\* further attempt, and returns success false with should_escalate true
\* exactly when every attempt failed.
C15_RetryProtocol ==
    (tc.state = "done" /\ tc.valid) =>
        LET result == tc.result
        IN  /\ result.backend_calls \in 1..(MaxRetries + 1)
            /\ \A k \in Attempts : k < result.backend_calls => Failed(k)
            /\ result.success =>
                   /\ ~Failed(result.backend_calls)
                   /\ result.status = tc.script[result.backend_calls].status
                   /\ result.tracking_number =
                          tc.script[result.backend_calls].tracking_number
                   /\ ~result.should_escalate
            /\ (~result.success /\ result.should_escalate) <=>
                   (\A k \in 1..(MaxRetries + 1) : Failed(k))
            /\ ~result.success => result.should_escalate

\* the first attempt failed, the retry succeeded and its response was returned
C15_Witness ==
    /\ tc.state = "done"
    /\ tc.valid
    /\ tc.script[1].kind = "exc"
    /\ tc.script[2] = OkDelivered
    /\ tc.result.success
    /\ tc.result.backend_calls = 2

\* C16: when the parameters do not satisfy the tool's schema, execute returns
\* success false and should_escalate false without calling the backend even
\* once and without retrying; it logs the one failed tool_call.
C16_ValidationFailsFast ==
    (tc.state = "done" /\ ~tc.valid) =>
        /\ ~tc.result.success
        /\ ~tc.result.should_escalate
        /\ tc.result.backend_calls = 0
        /\ tc.result.events = <<ToolCallEvent(tc.tool_name, FALSE, 0)>>

\* invalid parameters for a backend that would have answered with success
C16_Witness ==
    /\ tc.state = "done"
    /\ ~tc.valid
    /\ tc.script[1].kind = "ok"
    /\ ~tc.result.success

\* the file holds the overrides of the store: the same ids in the same order
\* with the same field values
InSync(file, store) ==
    /\ Len(file) = Len(store)
    /\ \A i \in 1..Len(store) :
          /\ file[i].override_id = store[i].override_id
          /\ file[i].workflow = store[i].workflow
          /\ file[i].rule_id = store[i].rule_id
          /\ file[i].override_action = store[i].override_action
          /\ file[i].active = store[i].active

\* C17: with persistence enabled, when add_override, toggle_override,
\* remove_override or clear_all has returned, the durable file holds exactly
\* the overrides, ids and field values, that the store holds in memory.
C17_FileMatchesStore == (boot = "mutated") => InSync(disk, overrides)

\* an entry of the file that names every field of an override
ValidEntry(override_data) ==
    /\ override_data.override_id # Absent
    /\ override_data.workflow # Absent
    /\ override_data.rule_id # Absent
    /\ override_data.override_action # Absent

\* C18: when the file holds a corrupted entry among valid ones, constructing
\* the store skips that entry and loads every valid entry.
C18_LoadSkipsCorrupted ==
    (boot = "loaded") =>
        /\ \A i \in 1..Len(disk) :
              ValidEntry(disk[i]) => IndexOf(overrides, disk[i].override_id) # 0
        /\ \A j \in 1..Len(overrides) :
              \E i \in 1..Len(disk) :
                  ValidEntry(disk[i]) /\ disk[i].override_id = overrides[j].override_id

\* C19: after any sequence of add_override, toggle_override, remove_override
\* and clear_all calls, at most one override of the store is active for each
\* pair of workflow and rule_id.
C19_OneActivePerRule ==
    \A i, j \in 1..Len(overrides) :
        (/\ overrides[i].active /\ overrides[j].active
         /\ overrides[i].workflow = overrides[j].workflow
         /\ overrides[i].rule_id = overrides[j].rule_id) => i = j

\* the customer messages the session holds
CustomerMessages(s) == {i \in 1..Len(s.messages) : s.messages[i].role = CUSTOMER}

\* C20: contact_day is derived once, by the first process_message of the
\* session that logs a message, as the weekday of that call; once it is set no
\* step of any later call changes it.
C20_ContactDayOnce ==
    [][/\ Truthy(session.case_context.contact_day) =>
             session'.case_context.contact_day = session.case_context.contact_day
       /\ \A t \in Threads :
             (pc[t] = "incoming" /\ pc'[t] = "triage") =>
                 /\ Truthy(session'.case_context.contact_day)
                 /\ CustomerMessages(session) = {} =>
                        session'.case_context.contact_day = Weekday(clock)
       /\ (session'.case_context.contact_day # session.case_context.contact_day) =>
             /\ CustomerMessages(session) = {}
             /\ \E t \in Threads : pc[t] = "incoming" /\ pc'[t] = "triage"]_vars

\* a second message was logged a day after the first and the contact day is
\* still the weekday of the first
C20_Witness ==
    /\ clock = 1
    /\ \E i \in CustomerMessages(session) : session.messages[i].day = 0
    /\ \E i \in CustomerMessages(session) : session.messages[i].day = 1
    /\ session.case_context.contact_day = Weekday(0)

\* the fields of the case context that the classifier and the tools fill
FilledFields == {"order_id", "tracking_number", "item_name", "shipping_status"}

\* C21: once order_id, tracking_number, item_name or shipping_status holds a
\* value, no step of process_message sets it back to empty: a classifier
\* result without the entity and a tool result without the field leave the
\* stored value in place.
C21_FieldsMonotonic ==
    [][\A f \in FilledFields :
          Truthy(session.case_context[f]) => Truthy(session'.case_context[f])]_vars

\* the tracking number of an in_transit answer is still stored after the
\* delivered answer, which carries none, has set the shipping status
C21_Witness ==
    /\ session.case_context.shipping_status = "delivered"
    /\ session.case_context.tracking_number = "TRK1"
    /\ session.case_context.order_id = "ORD1"

\* whether some customer message of the session holds an urgency keyword
UrgentText(s) ==
    \E i \in 1..Len(s.messages) :
        /\ s.messages[i].role = CUSTOMER
        /\ s.messages[i].content = "This is URGENT"

\* the priority the documented order gives: explicit, urgency, failures, medium
ExpectedPriority(explicit, urgent, failures) ==
    IF Truthy(explicit) THEN explicit
    ELSE IF urgent THEN "high"
    ELSE IF failures >= 2 THEN "high"
    ELSE "medium"

\* the order as EscalationAgent.escalate follows it; the escalated session
\* holds the messages and the tool history the call found
AgentPriorityOrder ==
    (fcall.state = "done" /\ fcall.kind = "agent") =>
        fcall.payload.priority =
            ExpectedPriority(fcall.priority, UrgentText(session),
                             FailedTools(session.tool_history))

\* C22: the priority of every escalation payload is the explicit priority if
\* the caller or the decision supplies one, otherwise high for an urgency
\* keyword in customer text, otherwise high for two failed tool calls,
\* otherwise medium, for EscalationAgent.escalate and for the orchestrator.
C22_PriorityOrder ==
    /\ AgentPriorityOrder
    /\ (fcall.state = "done" /\ fcall.kind = "orchestrator") =>
          fcall.payload.priority =
              ExpectedPriority(fcall.priority, UrgentText(session),
                               FailedTools(session.tool_history))

\* C23: every escalation payload that is constructed has its seven fields,
\* an escalation_id of esc_ and 8 hex digits, and a priority among low,
\* medium and high, also when the caller passes a priority.
C23_PayloadSchemaValid ==
    (fcall.state = "done") =>
        /\ DOMAIN fcall.payload =
              {"escalation_id", "customer_id", "reason", "conversation_summary",
               "attempted_actions", "priority", "created_at"}
        /\ fcall.payload.escalation_id = [prefix |-> "esc_", hex_digits |-> 8]
        /\ fcall.payload.priority \in {"low", "medium", "high"}

EventsOfMessage(trace) ==
    LET starts == {i \in 1..Len(trace) : trace[i].event_type = "customer_message"}
        first == CHOOSE i \in starts : \A j \in starts : j <= i
    IN  IF starts = {} THEN <<>> ELSE SubSeq(trace, first, Len(trace))

\* the workflow ids of the route_to_workflow Decisions among some events
RECURSIVE RoutedFrom(_)
RoutedFrom(events) ==
    IF events = <<>> THEN <<>>
    ELSE (IF /\ Head(events).event_type = "workflow_decision"
             /\ Head(events).data = "route_to_workflow"
          THEN <<Head(events).workflow_id>> ELSE <<>>) \o RoutedFrom(Tail(events))

\* Following the documents from workflow w for one context: the first matching
\* rule of w either is no route (the chain ends) or names the workflow to
\* evaluate next; the chain ends when it reaches a rule that is no route
\* without coming back to a workflow it has left.
RECURSIVE RoutingEnds(_, _, _)
RoutingEnds(w, context, seen) ==
    IF w \notin DOMAIN workflows THEN TRUE
    ELSE LET rules == workflows[w].rules
             m == FirstMatch(rules, context, 1)
         IN  IF m = 0 THEN TRUE
             ELSE IF rules[m].action # "route_to_workflow" THEN TRUE
             ELSE IF rules[m].target_workflow \in seen \cup {w, NONE} THEN FALSE
             ELSE RoutingEnds(rules[m].target_workflow, context, seen \cup {w})

\* a call_tool dispatch never re-runs the engine: every evaluation of a call
\* has logged one workflow_decision, and a call that has left the dispatch has
\* made one evaluation and one more for each route_to_workflow Decision
EvaluationsCounted ==
    \A t \in Threads :
        LET events == EventsOfMessage(session.trace)
        IN  /\ pc[t] \in {"dispatch", "tool", "return"}
                  => loc[t].evals = CountEvents(events, "workflow_decision")
            /\ pc[t] \in {"tool", "return"}
                  => loc[t].evals = 1 + Len(RoutedFrom(events))

\* C35: a call_tool dispatch never re-runs the workflow engine: within one
\* process_message the number of evaluate calls is 1 plus the number of
\* route_to_workflow Decisions dispatched, and a call for which the loaded
\* documents route round no cycle terminates: it makes at most one evaluation
\* per workflow and one more, and does not end in the interpreter's
\* RecursionError.
C35_NoReevaluation ==
    /\ EvaluationsCounted
    /\ \A t \in Threads :
          LET ends == RoutingEnds(IntentKey(session.intent),
                                  _build_context(session, clock), {})
          IN  /\ (pc[t] \in {"workflow", "dispatch"} /\ ends)
                    => loc[t].evals <= Cardinality(DOMAIN workflows) + 1
              /\ (pc[t] = "idle" /\ ret[t].kind = "RecursionError"
                  /\ ret[t].call = loc[t].call)
                    => ~ends

\* seq is what longer started with
IsPrefix(seq, longer) ==
    /\ Len(seq) <= Len(longer)
    /\ SubSeq(longer, 1, Len(seq)) = seq

\* C36: trace, messages and tool_history are append-only: over every step of
\* the pipeline, the store, the escalation agent and the action agent the
\* previous value of each list is a prefix of its new value.
C36_AppendOnly ==
    [][/\ IsPrefix(session.trace, session'.trace)
       /\ IsPrefix(session.messages, session'.messages)
       /\ IsPrefix(session.tool_history, session'.tool_history)]_vars

\* all three lists have grown: two messages, their trace events and the
\* records of a tool plan
C36_Witness ==
    /\ Len(session.messages) >= 2
    /\ Len(session.trace) >= 3
    /\ Len(session.tool_history) = 2

\* C37: a session's trace holds at most one escalation event after any
\* sequence of process_message and EscalationAgent.escalate calls, and exactly
\* one once such a call has escalated the session.
C37_OneEscalationEvent ==
    /\ CountEvents(session.trace, "escalation") <= 1
    /\ (escalations > 0 \/ \E t \in Threads : ret[t].reply = ESCALATION_REPLY)
          => CountEvents(session.trace, "escalation") = 1

\* customer, agent, customer, agent, ...
Alternates(messages) ==
    \A i \in 1..Len(messages) :
        messages[i].role = (IF i % 2 = 1 THEN CUSTOMER ELSE AGENT)

\* a call about to return has appended the customer's message and, after it,
\* one agent message
ReturningCallAppendsPair ==
    \A t \in Threads :
        pc[t] = "return" =>
            LET messages == session.messages
                n == Len(messages)
            IN  /\ n >= 2
                /\ messages[n - 1].role = CUSTOMER
                /\ messages[n].role = AGENT
                /\ n = 2 \/ messages[n - 2].role = AGENT

\* C38: every process_message on an active session appends one customer
\* message followed by one agent message, whichever action is dispatched, so
\* between two calls the messages alternate customer, agent and there are two
\* of them for each message processed.
C38_MessagesAlternate ==
    /\ ReturningCallAppendsPair
    /\ (\A t \in Threads : pc[t] = "idle") =>
          /\ Alternates(session.messages)
          /\ Len(session.messages) = 2 * CountEvents(session.trace, "customer_message")

\* two stores hold the same ids, in the same order, with the same workflow,
\* rule_id, override_action and active values
SameOverrides(store, other) ==
    /\ Len(store) = Len(other)
    /\ \A i \in 1..Len(store) :
          /\ store[i].override_id = other[i].override_id
          /\ store[i].workflow = other[i].workflow
          /\ store[i].rule_id = other[i].rule_id
          /\ store[i].override_action = other[i].override_action
          /\ store[i].active = other[i].active

\* C39: persist/load round trip: after any sequence of add, toggle, remove and
\* clear, a store constructed on the file the running store has written holds
\* the same overrides, and get_override answers the same on both.
C39_PersistLoadRoundTrip ==
    LET restarted == _load_from_disk(disk)
    IN  /\ SameOverrides(restarted, overrides)
        /\ \A workflow \in AdminWorkflows, rule_id \in AdminRules :
              get_override(restarted, workflow, rule_id).override_id
                  = get_override(overrides, workflow, rule_id).override_id

\* get_override returns an override for a pair exactly when the store holds an
\* active override of that workflow and rule, and then one of these
LookupAnswers(store) ==
    \A workflow \in AdminWorkflows, rule_id \in AdminRules :
        LET found == get_override(store, workflow, rule_id)
        IN  /\ found # NoOverride
                <=> \E i \in 1..Len(store) : /\ store[i].workflow = workflow
                                             /\ store[i].rule_id = rule_id
                                             /\ store[i].active
            /\ found # NoOverride
                => /\ found.workflow = workflow
                   /\ found.rule_id = rule_id
                   /\ found.active

\* toggle_override raises and remove_override returns False for an id the
\* store does not hold, and neither changes the store
UnknownIdLeavesStore(store) ==
    \A override_id \in OverrideIds :
        IndexOf(store, override_id) = 0 =>
            /\ toggle_override_returns(store, override_id).raised = "ValueError"
            /\ toggle_override(store, override_id) = store
            /\ ~remove_override_returns(store, override_id)
            /\ remove_override(store, override_id) = store

\* C40: toggle_override flips only the active flag of the named override and
\* returns the new value, so a second toggle restores the store; get_override
\* returns an override exactly when a stored override of the workflow and the
\* rule is active; toggle_override raises and remove_override returns False
\* for an unknown id, and both leave the store and its file as they were.
C40_ToggleAndLookup ==
    [][/\ LookupAnswers(overrides')
       /\ UnknownIdLeavesStore(overrides')
       /\ \A override_id \in OverrideIds :
             LET k == IndexOf(overrides, override_id)
             IN  /\ (ToggleOverride(override_id) /\ k # 0) =>
                       /\ Len(overrides') = Len(overrides)
                       /\ overrides' = [overrides EXCEPT ![k].active = ~@]
                       /\ toggle_override_returns(overrides, override_id).raised = NONE
                       /\ toggle_override_returns(overrides, override_id).value
                              = overrides'[k].active
                       /\ toggle_override(overrides', override_id) = overrides
                       /\ disk' = Persisted(overrides')
                 /\ (ToggleOverride(override_id) /\ k = 0) =>
                       UNCHANGED <<overrides, disk>>
                 /\ (RemoveOverride(override_id) /\ k = 0) =>
                       UNCHANGED <<overrides, disk>>]_vars

\* a lookup has passed over an override that is switched off and returned the
\* active one stored behind it
C40_Witness ==
    /\ Len(overrides) = 2
    /\ ~overrides[1].active
    /\ overrides[1].workflow = overrides[2].workflow
    /\ overrides[1].rule_id = overrides[2].rule_id
    /\ rd.state = "done"
    /\ rd.store0 = overrides
    /\ rd.result = overrides[2]

ExplicitEscalation ==
    /\ pc' = pc
    /\ \/ escalations' = escalations + 1
       \/ session' = set_status(session, ESCALATED)

ToolStatusStored ==
    [][\A t \in Threads :
          /\ (pc[t] = "tool" /\ loc'[t] # loc[t] /\ loc'[t].last_result.success)
                => LET data == loc'[t].last_result
                       cc == session'.case_context
                   IN  /\ Truthy(data.status) => cc.shipping_status = data.status
                       /\ Truthy(data.tracking_number)
                             => cc.tracking_number = data.tracking_number
          /\ (pc'[t] = "dispatch" /\ loc'[t].decision.rule_id = "fetch_order_status")
                => ~Truthy(session'.case_context.shipping_status)]_vars

\* C34: after a call_tool dispatch in which a tool succeeded, the data that
\* tool returned is in the session's case_context before process_message
\* returns, so the evaluate call of the next message sees it and does not
\* select the data-fetching rule again for data that was already returned.
C34_ToolDataStored ==
    [][\A t \in Threads :
          /\ (pc[t] = "tool" /\ loc'[t] # loc[t] /\ loc'[t].last_result.success)
                => LET data == loc'[t].last_result
                       cc == session'.case_context
                   IN  /\ Truthy(data.status) => cc.shipping_status = data.status
                       /\ Truthy(data.tracking_number)
                             => cc.tracking_number = data.tracking_number
                       /\ Truthy(data.carrier)
                             => data.carrier \in {cc.order_id, cc.tracking_number,
                                                  cc.item_name, cc.shipping_status,
                                                  cc.contact_day}
          /\ (pc'[t] = "dispatch" /\ loc'[t].decision.rule_id = "fetch_order_status")
                => ~Truthy(session'.case_context.shipping_status)]_vars

\* customer_message, triage_result, one or more workflow_decision, then
\* tool_call and escalation events only, then agent_response
OrderedTrace(events) ==
    LET n == Len(events)
    IN  /\ n >= 4
        /\ events[1].event_type = "customer_message"
        /\ events[2].event_type = "triage_result"
        /\ events[3].event_type = "workflow_decision"
        /\ events[n].event_type = "agent_response"
        /\ \E k \in 3..(n - 1) :
              /\ \A i \in 3..k : events[i].event_type = "workflow_decision"
              /\ \A i \in (k + 1)..(n - 1) :
                    events[i].event_type \in {"tool_call", "escalation"}

\* the part of C29 the code keeps: a call that returns has logged its events
\* in that order
ReturnedTraceOrder ==
    [][\A t \in Threads :
          (pc[t] = "return" /\ pc'[t] = "idle")
              => OrderedTrace(EventsOfMessage(session'.trace))]_vars

\* C29: every process_message call that the guards let through appends to
\* the trace, in this order, a customer_message event, a triage_result event,
\* at least one workflow_decision event and finally an agent_response event,
\* with the call's tool_call and escalation events between the
\* workflow_decision and the agent_response.
C29_TraceOrder ==
    [][\A t \in Threads :
          (pc[t] \notin {"idle", "pending"} /\ pc'[t] = "idle")
              => OrderedTrace(EventsOfMessage(session'.trace))]_vars

\* C28: process_message for a session id the store does not hold reports the
\* session-not-found error, creates no session, changes no existing session,
\* and invokes no classifier, engine or tool: the call is over in the step
\* that starts it, and no call for such an id is ever inside the pipeline.
C28_SessionNotFound ==
    [][\A t \in Threads :
          /\ ForUnknownId(t)
                => /\ ret'[t] = NotFoundReturn(calls')
                   /\ pc'[t] = "idle"
                   /\ session_ids' = session_ids
                   /\ session' = session
                   /\ tc' = tc
          /\ pc'[t] \notin {"idle", "pending"} => loc'[t].session_id \in session_ids']_vars

\* a call for an unknown id has been answered with the error while the stored
\* session keeps the message and the trace of the call before it
C28_Witness ==
    /\ ret[1].kind = "not_found"
    /\ ret[1].error = "Session not found"
    /\ ret[1].call = 2
    /\ session_ids = {SessionId}
    /\ focus = SessionId
    /\ others = <<>>
    /\ Len(session.messages) > 0
    /\ Len(session.trace) > 0

\* what process_message leaves behind when its Decision was escalate: the
\* status, one escalation event with the payload, then the canned message
EscalateEndState(t) ==
    LET events == EventsOfMessage(session.trace)
        n == Len(events)
        m == Len(session.messages)
    IN  /\ session.status = ESCALATED
        /\ CountEvents(events, "escalation") = 1
        /\ n >= 2
        /\ events[n - 1].event_type = "escalation"
        /\ events[n - 1].payload = loc[t].escalation_payload
        /\ events[n - 1].payload # NoPayload
        /\ events[n].event_type = "agent_response"
        /\ m >= 1
        /\ session.messages[m].role = AGENT
        /\ session.messages[m].content = ESCALATION_REPLY

\* the part of C27 the code keeps
EscalateLeavesEndState ==
    \A t \in Threads :
        (pc[t] = "return" /\ loc[t].decision.next_action = "escalate")
            => EscalateEndState(t)

KnownOperators ==
    {"is_null", "is_not_null", "not_null", "equals", "not_equals", "in", "not_in",
     "contains"}

\* a leaf that is malformed, names an unknown operator, or cannot be computed
FaultyLeaf(leaf, value_type, context) ==
    \/ ~Truthy(leaf.field)
    \/ ~Truthy(leaf.operator)
    \/ leaf.operator \notin KnownOperators
    \/ /\ leaf.operator \in {"in", "not_in"}
       /\ \/ value_type = "int"
          \/ value_type = "str" /\ CtxGet(context, leaf.field) = NONE
    \/ /\ leaf.operator = "contains"
       /\ value_type # "str"
       /\ Truthy(CtxGet(context, leaf.field))

\* C26: condition evaluation is fail-closed: a leaf with an unknown operator,
\* a leaf without a field or an operator, and a leaf whose evaluation errors
\* all evaluate to non-match (and so does an all-of that holds such a leaf),
\* and _evaluate_condition never raises.
C26_FailClosed ==
    (fcall.state = "done" /\ fcall.kind = "condition") =>
        LET c == fcall.condition
            context == _build_context(session, clock)
        IN  /\ fcall.outcome \in {"match", "non-match"}
            /\ (c.kind = "leaf" /\ FaultyLeaf(c, fcall.value_type, context))
                  => fcall.outcome = "non-match"
            /\ (c.kind = "all"
                 /\ \E i \in 1..Len(c.conds) :
                       FaultyLeaf(c.conds[i], fcall.value_type, context))
                  => fcall.outcome = "non-match"

\* what the code does keep: a well-formed leaf with an unknown operator is a
\* non-match
UnknownOperatorIsNonMatch ==
    (fcall.state = "done" /\ fcall.kind = "condition"
     /\ fcall.condition.kind = "leaf"
     /\ Truthy(fcall.condition.field) /\ Truthy(fcall.condition.operator)
     /\ fcall.condition.operator \notin KnownOperators)
        => fcall.outcome = "non-match"

\* the elements of a list
Range(seq) == {seq[i] : i \in 1..Len(seq)}

C24_NeverRaises ==
    \A t \in Threads :
        (ret[t].call > 0 /\ ret[t].kind # "not_found") =>
            /\ ret[t].kind \in {"ok", "locked"}
            /\ Truthy(ret[t].reply)

\* C10: a process_message call evaluates the workflow engine at most
\* HopLimit + 1 times, and it never ends in the interpreter's RecursionError.
C10_RoutingLoopGuard ==
    \A t \in Threads :
        /\ loc[t].evals <= HopLimit + 1
        /\ ret[t].kind # "RecursionError"
====
